---- MODULE Spec2Model ----
(***************************************************************************)
(* Token lifecycle of the LinkedIn MCP server: TokenService (credential,   *)
(* authenticate, getAccessToken, fetchToken, resetTokens) and the request  *)
(* executors of ClientService and MarketingService that obtain a bearer    *)
(* token from it before every outbound call; and MetricsService, to which  *)
(* the executors report every call that succeeded.                         *)
(*                                                                         *)
(* JavaScript is single threaded: an action is one synchronous run of code *)
(* up to the next await. A pending axios.post is a message in flight; its  *)
(* resolution or rejection is a later action.                              *)
(***************************************************************************)
EXTENDS Integers, FiniteSets, Sequences, Bags, TLC

VARIABLES
    accessToken,    \* TokenService.accessToken: a token string, NULL or UNDEFINED
    refreshToken,   \* TokenService.refreshToken
    tokenExpiry,    \* TokenService.tokenExpiry: Null, NaN or Num(ms)
    clientId,       \* AuthConfig.clientId (LINKEDIN_CLIENT_ID, optional)
    clientSecret,   \* AuthConfig.clientSecret (LINKEDIN_CLIENT_SECRET, optional)
    now,            \* Date.now() in ms
    pending,        \* bag of token-endpoint requests in flight (axios.post not settled)
    task,           \* the asynchronous callers of TokenService, each with its position
    last,           \* observation of the step just taken (what the caller saw)
    requestCounts,          \* MetricsService.requestCounts: category -> number
    lastRequestTimestamps,  \* MetricsService.lastRequestTimestamps: category -> Null or Num(ms)
    responseTimes,          \* MetricsService.responseTimes: category -> sequence of ms
    calls           \* log of the recordRequest calls made since construction or the last reset

vars == <<accessToken, refreshToken, tokenExpiry, clientId, clientSecret, now,
          pending, task, last, requestCounts, lastRequestTimestamps, responseTimes,
          calls>>

cred == <<accessToken, refreshToken, tokenExpiry>>

\* the fields of MetricsService
metrics == <<requestCounts, lastRequestTimestamps, responseTimes>>

\* everything TokenService and its callers own
auth == <<accessToken, refreshToken, tokenExpiry, clientId, clientSecret, pending, task>>

-----------------------------------------------------------------------------
(* JavaScript values *)

NULL == "null"
UNDEFINED == "undefined"

\* string | null | undefined used as a condition
Truthy(s) == s \notin {NULL, UNDEFINED, ""}

\* number | null, where the number may be NaN
Null == [k |-> "null", v |-> 0]
NaN == [k |-> "NaN", v |-> 0]
Num(n) == [k |-> "num", v |-> n]

\* a number used as a condition: null, NaN and 0 are falsy
TruthyNum(x) == x.k = "num" /\ x.v # 0

-----------------------------------------------------------------------------
(* Bounds and input domains *)

\* number of concurrent callers modelled
MaxTasks == 1
\* number of token-endpoint requests that may be in flight together
MaxInFlight == 2

\* Date.now() when the TokenService is constructed
StartTime == 1000000

\* the instants (ms after StartTime) the clock is observed at
Instants == {0, 3300000, 3596000, 3601000}

\* ACCESS_TOKEN_EXPIRES_IN as set in the environment (seconds), "" for unset
EnvExpiresIn == {"", "abc", "240", "3600"}

\* parseInt of the values above
parseInt(s) ==
    CASE s = "240" -> Num(240)
      [] s = "3600" -> Num(3600)
      [] OTHER -> NaN

\* token-endpoint response bodies: access_token, refresh_token, expires_in
ResponseAccessTokens == {"tokA", "tokB", UNDEFINED}
ResponseRefreshTokens == {"refB", UNDEFINED}
ResponseExpiresIn == {Num(240), Num(3600), NaN}

Responses ==
    [access_token : ResponseAccessTokens,
     refresh_token : ResponseRefreshTokens,
     expires_in : ResponseExpiresIn]

-----------------------------------------------------------------------------
(* TokenService *)

EXPIRY_THRESHOLD == 5 * 60 * 1000

\* Date.now() + x * 1000, with NaN propagating
PlusSeconds(t, x) == IF x.k = "num" THEN Num(t + x.v * 1000) ELSE NaN

\* (variant: a token without expiry is not taken as valid)
hasValidToken_RequiresExpiry ==
    Truthy(accessToken) /\ TruthyNum(tokenExpiry) /\ now < tokenExpiry.v

hasValidToken ==
    Truthy(accessToken)
    /\ (IF TruthyNum(tokenExpiry) THEN now < tokenExpiry.v ELSE TRUE)

\* (variant: the threshold itself counts as expiring soon)
isTokenExpiringSoon_Inclusive ==
    IF TruthyNum(tokenExpiry) THEN tokenExpiry.v - now <= EXPIRY_THRESHOLD ELSE FALSE

\* (variant: not while a background refresh is in flight)
isTokenExpiringSoon_Deduplicated ==
    /\ BagCardinality(pending) = 0
    /\ IF TruthyNum(tokenExpiry) THEN tokenExpiry.v - now < EXPIRY_THRESHOLD ELSE FALSE

isTokenExpiringSoon ==
    IF TruthyNum(tokenExpiry) THEN tokenExpiry.v - now < EXPIRY_THRESHOLD ELSE FALSE

\* (variant: authenticate() always asks for a refresh)
authGrant_AlwaysRefreshToken == "refresh_token"

\* (variant: the refresh token is never used)
authGrant_AlwaysClientCredentials == "client_credentials"

\* the grant authenticate() asks fetchToken for
authGrant == IF Truthy(refreshToken) THEN "refresh_token" ELSE "client_credentials"

\* (variant: only the client id is required)
fetchTokenThrows_IgnoresSecret(grantType) ==
    \/ ~Truthy(clientId)
    \/ (grantType = "refresh_token" /\ ~Truthy(refreshToken))

\* the synchronous part of fetchToken, up to axios.post: does it throw?
fetchTokenThrows(grantType) ==
    \/ ~Truthy(clientId)
    \/ ~Truthy(clientSecret)
    \/ (grantType = "refresh_token" /\ ~Truthy(refreshToken))

\* the request fetchToken posts to the token endpoint (lines 103-112)
Request(grantType) ==
    [grant_type |-> grantType,
     refresh_token |-> IF grantType = "refresh_token" THEN refreshToken ELSE UNDEFINED]

NoRequest == [grant_type |-> "none", refresh_token |-> UNDEFINED]

\* (variant: the access token survives a reset)
resetTokens_KeepsAccessToken ==
    /\ accessToken' = accessToken
    /\ refreshToken' = NULL
    /\ tokenExpiry' = Null

\* (variant: the expiry survives a reset)
resetTokens_KeepsExpiry ==
    /\ accessToken' = NULL
    /\ refreshToken' = NULL
    /\ tokenExpiry' = tokenExpiry

\* (variant: the refresh token survives a reset)
resetTokens_KeepsRefreshToken ==
    /\ accessToken' = NULL
    /\ refreshToken' = refreshToken
    /\ tokenExpiry' = Null

resetTokens ==
    /\ accessToken' = NULL
    /\ refreshToken' = NULL
    /\ tokenExpiry' = Null

-----------------------------------------------------------------------------
(* MetricsService *)

\* line 13: the capacity of each category's history
DEFAULT_HISTORY_SIZE == 100

\* MetricCategory
Categories == {"search", "profile", "job", "message", "connection", "auth", "other"}

\* strings that are searched by prefix are sequences of characters
PathSearchPeople == <<"/", "s", "e", "a", "r", "c", "h", "/", "p", "e", "o", "p", "l", "e">>
PathPeople == <<"/", "p", "e", "o", "p", "l", "e">>
PathJobs == <<"/", "j", "o", "b", "s">>
PathMessages == <<"/", "m", "e", "s", "s", "a", "g", "e", "s">>
PathConnections == <<"/", "c", "o", "n", "n", "e", "c", "t", "i", "o", "n", "s">>
PathMe == <<"/", "m", "e">>
PathNetworkSizes == <<"/", "n", "e", "t", "w", "o", "r", "k", "S", "i", "z", "e", "s">>
PathAuth == <<"/", "a", "u", "t", "h">>

Entry(prefix, category) == [prefix |-> prefix, category |-> category]

\* line 44-53, in the order Object.keys enumerates it
categoryMapping ==
    << Entry(PathSearchPeople, "search"),
       Entry(PathPeople, "profile"),
       Entry(PathJobs, "job"),
       Entry(PathMessages, "message"),
       Entry(PathConnections, "connection"),
       Entry(PathMe, "profile"),
       Entry(PathNetworkSizes, "connection"),
       Entry(PathAuth, "auth") >>

\* String.prototype.startsWith
startsWith(str, prefix) ==
    Len(prefix) <= Len(str) /\ \A i \in 1..Len(prefix) : str[i] = prefix[i]

\* (variant: the first matching prefix of the table, whatever its length)
getCategoryFrom_FirstMatch(table, endpoint) ==
    LET matching == SelectSeq(table, LAMBDA e : startsWith(endpoint, e.prefix))
    IN  IF matching = <<>> THEN "other" ELSE matching[1].category

\* line 174-177 over a given table: filter the keys the endpoint starts
\* with, sort them by descending length (Array.prototype.sort is stable, so
\* element 0 is the first of the longest), map it to its category
getCategoryFrom(table, endpoint) ==
    LET matching == SelectSeq(table, LAMBDA e : startsWith(endpoint, e.prefix))
        longer(i, j) == Len(matching[i].prefix) > Len(matching[j].prefix)
        first == CHOOSE i \in 1..Len(matching) :
                    /\ \A j \in 1..Len(matching) : ~longer(j, i)
                    /\ \A j \in 1..(i - 1) : longer(i, j)
    IN  IF matching = <<>> THEN "other" ELSE matching[first].category

getCategoryFromEndpoint(endpoint) == getCategoryFrom(categoryMapping, endpoint)

\* the state after construction (line 14-42), also what resetMetrics leaves
MetricsInit ==
    /\ requestCounts = [c \in Categories |-> 0]
    /\ lastRequestTimestamps = [c \in Categories |-> Null]
    /\ responseTimes = [c \in Categories |-> <<>>]

\* (variant: the count follows the window)
recordRequest_CountsWindow(endpoint, responseTimeMs) ==
    LET category == getCategoryFromEndpoint(endpoint)
        pushed == Append(responseTimes[category], responseTimeMs)
    IN  /\ requestCounts' = [requestCounts EXCEPT ![category] =
                IF Len(pushed) > DEFAULT_HISTORY_SIZE THEN @ ELSE @ + 1]
        /\ lastRequestTimestamps' = [lastRequestTimestamps EXCEPT ![category] = Num(now)]
        /\ responseTimes' = [responseTimes EXCEPT ![category] =
                IF Len(pushed) > DEFAULT_HISTORY_SIZE THEN Tail(pushed) ELSE pushed]

\* (variant: at capacity the newest sample is dropped instead of the oldest)
recordRequest_DropsNewest(endpoint, responseTimeMs) ==
    LET category == getCategoryFromEndpoint(endpoint)
        pushed == Append(responseTimes[category], responseTimeMs)
    IN  /\ requestCounts' = [requestCounts EXCEPT ![category] = @ + 1]
        /\ lastRequestTimestamps' = [lastRequestTimestamps EXCEPT ![category] = Num(now)]
        /\ responseTimes' = [responseTimes EXCEPT ![category] =
                IF Len(pushed) > DEFAULT_HISTORY_SIZE
                THEN SubSeq(pushed, 1, Len(pushed) - 1) ELSE pushed]

\* (variant: every category is stamped with the time of the call)
recordRequest_StampsAll(endpoint, responseTimeMs) ==
    LET category == getCategoryFromEndpoint(endpoint)
        pushed == Append(responseTimes[category], responseTimeMs)
    IN  /\ requestCounts' = [requestCounts EXCEPT ![category] = @ + 1]
        /\ lastRequestTimestamps' = [c \in Categories |-> Num(now)]
        /\ responseTimes' = [responseTimes EXCEPT ![category] =
                IF Len(pushed) > DEFAULT_HISTORY_SIZE THEN Tail(pushed) ELSE pushed]

\* line 61-69
recordRequest(endpoint, responseTimeMs) ==
    LET category == getCategoryFromEndpoint(endpoint)
        pushed == Append(responseTimes[category], responseTimeMs)
    IN  /\ requestCounts' = [requestCounts EXCEPT ![category] = @ + 1]
        /\ lastRequestTimestamps' = [lastRequestTimestamps EXCEPT ![category] = Num(now)]
        /\ responseTimes' = [responseTimes EXCEPT ![category] =
                IF Len(pushed) > DEFAULT_HISTORY_SIZE THEN Tail(pushed) ELSE pushed]

\* (variant: the loop stops before the last category)
resetMetrics_SkipsOther ==
    /\ requestCounts' = [c \in Categories |-> IF c = "other" THEN requestCounts[c] ELSE 0]
    /\ lastRequestTimestamps' =
          [c \in Categories |-> IF c = "other" THEN lastRequestTimestamps[c] ELSE Null]
    /\ responseTimes' = [c \in Categories |-> IF c = "other" THEN responseTimes[c] ELSE <<>>]

\* (variant: the counters are left as they are)
resetMetrics_KeepsCounts ==
    /\ requestCounts' = requestCounts
    /\ lastRequestTimestamps' = [c \in Categories |-> Null]
    /\ responseTimes' = [c \in Categories |-> <<>>]

\* line 159-165: one synchronous loop over the categories
resetMetrics ==
    /\ requestCounts' = [c \in Categories |-> 0]
    /\ lastRequestTimestamps' = [c \in Categories |-> Null]
    /\ responseTimes' = [c \in Categories |-> <<>>]

\* Math.max() of no arguments
NegInfinity == [k |-> "-Infinity", v |-> 0]

\* x || null for a number x: 0 and NaN give null, -Infinity is truthy
OrNull(x) == IF x = NegInfinity \/ TruthyNum(x) THEN x ELSE Null

\* Math.round(num / den) for den > 0: the nearest integer, halves upwards
Round(num, den) == (2 * num + den) \div (2 * den)

\* [...times].sort((a, b) => a - b)
sortAscending(times) == SortSeq(times, LAMBDA a, b : a < b)

\* (variant: times.sort(...) sorts the stored array itself)
storedAfterSort_InPlace(times) == sortAscending(times)

\* [...times].sort(...) sorts a copy made by the spread: what the array held
\* in responseTimes is after the statement
storedAfterSort(times) == times

\* the accumulator of reduce after the first n elements
RECURSIVE reduceSum(_, _)
reduceSum(times, n) == IF n = 0 THEN 0 ELSE reduceSum(times, n - 1) + times[n]

\* times.reduce((sum, time) => sum + time, 0)
sum(times) == reduceSum(times, Len(times))

\* Math.round of the double that line 199 computes for the exact value
\* num / 100. Off a half the double rounds as the exact value does, and a
\* half reached with weight 1/2 is computed exactly and rounds upwards. A
\* half reached with another weight is computed from weights that are not
\* exact in binary (0.95 * 3 is 2.8499999999999996) and lands on either
\* side: [10,10,10,20] gives p95 = 18 and [0,10] gives p95 = 10.
roundInterpolated(num, weight100) ==
    IF num % 100 = 50 /\ weight100 # 50
    THEN {num \div 100, (num \div 100) + 1}
    ELSE {Round(num, 100)}

\* (variant: the weight is given to the lower element)
getPercentile_SwappedWeights(sortedValues, percentile) ==
    IF Len(sortedValues) = 0 THEN {0}
    ELSE IF Len(sortedValues) = 1 THEN {sortedValues[1]}
    ELSE LET index100 == percentile * (Len(sortedValues) - 1)
             lower == index100 \div 100
             weight100 == index100 % 100
         IN  IF weight100 = 0
             THEN {sortedValues[lower + 1]}
             ELSE roundInterpolated(sortedValues[lower + 1] * weight100
                                      + sortedValues[lower + 2] * (100 - weight100),
                                    weight100)

\* (variant: the element at the floor of the index, no interpolation)
getPercentile_Floor(sortedValues, percentile) ==
    IF Len(sortedValues) = 0 THEN {0}
    ELSE IF Len(sortedValues) = 1 THEN {sortedValues[1]}
    ELSE {sortedValues[((percentile * (Len(sortedValues) - 1)) \div 100) + 1]}

\* line 187-200, on samples that are whole milliseconds: the set of values
\* the call can return. index is held as index * 100 = percentile *
\* (length - 1): lower is its quotient by 100 and weight its remainder over
\* 100; sequences are indexed from 1
getPercentile(sortedValues, percentile) ==
    IF Len(sortedValues) = 0 THEN {0}
    ELSE IF Len(sortedValues) = 1 THEN {sortedValues[1]}
    ELSE LET index100 == percentile * (Len(sortedValues) - 1)
             lower == index100 \div 100
             weight100 == index100 % 100
         IN  IF weight100 = 0
             THEN {sortedValues[lower + 1]}
             ELSE roundInterpolated(sortedValues[lower + 1] * (100 - weight100)
                                      + sortedValues[lower + 2] * weight100,
                                    weight100)

\* MetricData
MetricData(count, timestamp, average, p50, p90, p95, p99, min, max) ==
    [requestCount |-> count, lastRequestTimestamp |-> timestamp,
     averageResponseTime |-> average,
     p50ResponseTime |-> p50, p90ResponseTime |-> p90,
     p95ResponseTime |-> p95, p99ResponseTime |-> p99,
     minResponseTime |-> min, maxResponseTime |-> max]

\* line 93-103 and 121-131: the statistics of a non-empty array of samples,
\* as the set of objects the expressions can evaluate to
Statistics(count, timestamp, times) ==
    LET sortedTimes == sortAscending(times)
    IN  {MetricData(count, timestamp,
                    Round(sum(times), Len(times)),
                    p50, p90, p95, p99,
                    sortedTimes[1],
                    sortedTimes[Len(sortedTimes)]) :
            p50 \in getPercentile(sortedTimes, 50),
            p90 \in getPercentile(sortedTimes, 90),
            p95 \in getPercentile(sortedTimes, 95),
            p99 \in getPercentile(sortedTimes, 99)}

\* line 77-104: the set of objects the call can return
getMetricsForCategory(category) ==
    LET times == responseTimes[category]
    IN  IF Len(times) = 0
        THEN {MetricData(requestCounts[category], lastRequestTimestamps[category],
                         0, 0, 0, 0, 0, 0, 0)}
        ELSE Statistics(requestCounts[category], lastRequestTimestamps[category], times)

\* the keys of the three records, in the order Object.values enumerates them
CategoryOrder == <<"search", "profile", "job", "message", "connection", "auth", "other">>

\* the histories of the first n categories, one after the other
RECURSIVE flat(_)
flat(n) == IF n = 0 THEN <<>> ELSE flat(n - 1) \o responseTimes[CategoryOrder[n]]

\* (variant: the last category is left out)
allTimes_SkipsOther == flat(Len(CategoryOrder) - 1)

\* line 112: Object.values(this.responseTimes).flat()
allTimes == flat(Len(CategoryOrder))

\* line 114
totalRequests == reduceSum([n \in 1..Len(CategoryOrder) |-> requestCounts[CategoryOrder[n]]],
                           Len(CategoryOrder))

\* (variant: the earliest timestamp)
lastTimestamp_Earliest ==
    LET present == {lastRequestTimestamps[c].v : c \in {d \in Categories : lastRequestTimestamps[d] # Null}}
    IN  IF present = {} THEN NegInfinity
        ELSE Num(CHOOSE t \in present : \A u \in present : u >= t)

\* line 115-117: Math.max over the timestamps that are not null
lastTimestamp ==
    LET present == {lastRequestTimestamps[c].v : c \in {d \in Categories : lastRequestTimestamps[d] # Null}}
    IN  IF present = {} THEN NegInfinity
        ELSE Num(CHOOSE t \in present : \A u \in present : u <= t)

\* line 119-142: the objects `overall` can be
overall ==
    IF Len(allTimes) > 0
    THEN Statistics(totalRequests, OrNull(lastTimestamp), allTimes)
    ELSE {MetricData(totalRequests,
                     IF totalRequests > 0 THEN OrNull(lastTimestamp) ELSE Null,
                     0, 0, 0, 0, 0, 0, 0)}

\* line 111-154: what the call can return, each MetricData given as the set
\* of objects it can be
getDetailedMetrics ==
    [overall |-> overall,
     byCategory |-> [c \in Categories |-> getMetricsForCategory(c)]]

-----------------------------------------------------------------------------
(* The callers of TokenService *)

\* the request executors ClientService.makeRequest, ClientService.makeV2Request
\* and MarketingService.makeRequest run the same steps: await authenticate(),
\* getAccessToken(), the HTTP call with that token, recordRequest
Executors == {"makeRequest"}

\* callers whose first step is authenticate()
AuthKinds == Executors \cup {"ensureAuthenticated"}

\* callers that call getAccessToken() without authenticate() before it
TokenOnlyKinds == {"updateCampaignStatus"}

\* a caller suspended at an await: on its foreground token request
\* (awaitFetch), on the resolved authenticate() promise (authed), or on its
\* outbound HTTP call sent with `token` (http)
Caller(pc, kind, req, token) == [pc |-> pc, kind |-> kind, req |-> req, token |-> token]

Add1(bag, x) == bag (+) SetToBag({x})
Del1(bag, x) == bag (-) SetToBag({x})

\* the callers at position pc
At(pc) == {c \in BagToSet(task) : c.pc = pc}

\* token-endpoint requests in flight, awaited or not
InFlight ==
    BagCardinality(pending) + BagCardinality([c \in At("awaitFetch") |-> task[c]])

\* what the step just taken showed: the operation, its outcome (ok, throw,
\* pending), the value returned, the grant fetchToken was invoked with, the
\* number of token-endpoint requests posted, whether the fetch was awaited
\* (foreground) or not (background), and the access token held when the
\* step began
Obs(op, result, ret, fetch, sent, origin) ==
    [op |-> op, result |-> result, ret |-> ret, fetch |-> fetch, sent |-> sent,
     origin |-> origin, pre |-> accessToken]

\* a fetch that resolved also shows the response body it stored
ObsResolved(resp, grantType, origin) ==
    [op |-> "fetchToken", result |-> "ok", ret |-> resp.access_token,
     fetch |-> grantType, sent |-> 0, origin |-> origin, pre |-> accessToken,
     resp |-> resp]

\* a fetch that was rejected also shows the request that failed and whether
\* the step before it was a fetch that resolved
ObsRejected(req, origin) ==
    [op |-> "fetchToken", result |-> "throw", ret |-> NULL,
     fetch |-> req.grant_type, sent |-> 0, origin |-> origin, pre |-> accessToken,
     afterResolved |-> (last.op = "fetchToken" /\ last.result = "ok")]

Init ==
    /\ now = StartTime
    /\ accessToken \in {NULL, "seed"}
    /\ refreshToken \in {NULL, "refA"}
    /\ \E e \in EnvExpiresIn :
          tokenExpiry = IF e # "" THEN PlusSeconds(now, parseInt(e)) ELSE Null
    /\ clientId \in {UNDEFINED, "id"}
    /\ clientSecret \in {UNDEFINED, "secret"}
    /\ (Truthy(accessToken) \/ (Truthy(clientId) /\ Truthy(clientSecret)))
    /\ pending = EmptyBag
    /\ task = EmptyBag
    /\ last = Obs("init", "none", NULL, "none", 0, "none")
    /\ MetricsInit
    /\ calls = <<>>

\* Date.now() moves on
Tick ==
    /\ \E d \in Instants : StartTime + d > now /\ now' = StartTime + d
    /\ last' = Obs("clock", "none", NULL, "none", 0, "none")
    /\ UNCHANGED <<cred, clientId, clientSecret, pending, task, metrics, calls>>

\* TokenService.authenticate(), called by a new caller of the given kind
authenticate(kind) ==
    /\ BagCardinality(task) < MaxTasks
    /\ IF hasValidToken
       THEN \* line 46-49: the promise resolves; an executor goes on after its await
            /\ UNCHANGED <<cred, pending>>
            /\ task' = IF kind \in Executors
                       THEN Add1(task, Caller("authed", kind, NoRequest, NULL))
                       ELSE task
            /\ last' = Obs("authenticate", "ok", NULL, "none", 0, "none")
       ELSE IF fetchTokenThrows(authGrant)
       THEN \* line 99-112 throw, line 119-122: reset and rethrow to the caller
            /\ resetTokens
            /\ UNCHANGED <<pending, task>>
            /\ last' = Obs("authenticate", "throw", NULL, authGrant, 0, "foreground")
       ELSE \* line 114: the request is posted and awaited
            /\ InFlight < MaxInFlight
            /\ task' = Add1(task, Caller("awaitFetch", kind, Request(authGrant), NULL))
            /\ UNCHANGED <<cred, pending>>
            /\ last' = Obs("authenticate", "pending", NULL, authGrant, 1, "foreground")
    /\ UNCHANGED <<clientId, clientSecret, now, metrics, calls>>

Authenticate == \E kind \in AuthKinds : authenticate(kind)

\* (variant: only null is refused, undefined passes)
getAccessTokenThrows_NullOnly == accessToken = NULL

\* line 61: the guard of getAccessToken
getAccessTokenThrows == ~Truthy(accessToken)

\* TokenService.getAccessToken() called by a caller of the given kind, the
\* other suspended callers being `others`; the value returned is this.accessToken as read at the
\* return statement, after fetchToken's synchronous part has run
getAccessToken(others, kind) ==
    /\ IF getAccessTokenThrows
       THEN \* line 61-64; the caller's request fails before any HTTP call
            /\ UNCHANGED <<cred, pending>>
            /\ task' = others
            /\ last' = Obs("getAccessToken", "throw", NULL, "none", 0, "none")
       ELSE /\ IF isTokenExpiringSoon
               THEN IF fetchTokenThrows("refresh_token")
                    THEN \* fetchToken's catch block runs before line 71
                         /\ resetTokens
                         /\ UNCHANGED pending
                         /\ last' = Obs("getAccessToken", "ok", accessToken',
                                        "refresh_token", 0, "background")
                    ELSE \* line 67: the request is posted, nobody awaits it
                         /\ InFlight < MaxInFlight
                         /\ pending' = Add1(pending, Request("refresh_token"))
                         /\ UNCHANGED cred
                         /\ last' = Obs("getAccessToken", "ok", accessToken',
                                        "refresh_token", 1, "background")
               ELSE /\ UNCHANGED <<cred, pending>>
                    /\ last' = Obs("getAccessToken", "ok", accessToken', "none", 0, "none")
            /\ task' = Add1(others, Caller("http", kind, NoRequest, accessToken'))
    /\ UNCHANGED <<clientId, clientSecret, now, metrics, calls>>

\* an executor continues after `await this.tokenService.authenticate()`
ExecutorGetToken ==
    \E c \in At("authed") : getAccessToken(Del1(task, c), c.kind)

\* MarketingService.updateCampaignStatus reads the token without authenticating
UpdateCampaignStatus ==
    \E kind \in TokenOnlyKinds :
        /\ BagCardinality(task) < MaxTasks
        /\ getAccessToken(task, kind)

\* (variant: expires_in taken as milliseconds)
fetchTokenResolved_ExpiresInMillis(resp) ==
    /\ accessToken' = resp.access_token
    /\ refreshToken' = IF resp.refresh_token \in {UNDEFINED, NULL}
                        THEN refreshToken ELSE resp.refresh_token
    /\ tokenExpiry' = IF resp.expires_in.k = "num" THEN Num(now + resp.expires_in.v) ELSE NaN

\* (variant: the refresh token is whatever the response holds)
fetchTokenResolved_OverwritesRefreshToken(resp) ==
    /\ accessToken' = resp.access_token
    /\ refreshToken' = resp.refresh_token
    /\ tokenExpiry' = PlusSeconds(now, resp.expires_in)

\* line 115-118: the token endpoint answered 2xx with body resp
fetchTokenResolved(resp) ==
    /\ accessToken' = resp.access_token
    /\ refreshToken' = IF resp.refresh_token \in {UNDEFINED, NULL}
                        THEN refreshToken ELSE resp.refresh_token
    /\ tokenExpiry' = PlusSeconds(now, resp.expires_in)

\* a foreground fetch resolves: authenticate() resolves for its caller
ForegroundResolve ==
    \E c \in At("awaitFetch"), resp \in Responses :
        /\ fetchTokenResolved(resp)
        /\ task' = IF c.kind \in Executors
                   THEN Add1(Del1(task, c), Caller("authed", c.kind, NoRequest, NULL))
                   ELSE Del1(task, c)
        /\ last' = ObsResolved(resp, c.req.grant_type, "foreground")
        /\ UNCHANGED <<clientId, clientSecret, now, pending, metrics, calls>>

\* line 119-123: axios.post rejected (network failure, non-2xx); the caller
\* awaiting authenticate() gets the rethrown error and makes no HTTP call
ForegroundReject ==
    \E c \in At("awaitFetch") :
        /\ resetTokens
        /\ task' = Del1(task, c)
        /\ last' = ObsRejected(c.req, "foreground")
        /\ UNCHANGED <<clientId, clientSecret, now, pending, metrics, calls>>

\* a background refresh resolves
BackgroundResolve ==
    \E req \in BagToSet(pending), resp \in Responses :
        /\ fetchTokenResolved(resp)
        /\ pending' = Del1(pending, req)
        /\ last' = ObsResolved(resp, req.grant_type, "background")
        /\ UNCHANGED <<clientId, clientSecret, now, task, metrics, calls>>

\* a background refresh is rejected: fetchToken's catch block resets and
\* rethrows, the catch handler at line 67-69 logs the error
BackgroundReject ==
    \E req \in BagToSet(pending) :
        /\ resetTokens
        /\ pending' = Del1(pending, req)
        /\ last' = ObsRejected(req, "background")
        /\ UNCHANGED <<clientId, clientSecret, now, task, metrics, calls>>

\* the outbound API call fails: the executor's catch block logs and rethrows
\* (client.service.ts 349-352, 557-560; marketing.service.ts 89-92), and
\* updateCampaignStatus lets the rejection through; nothing is recorded
HttpFails ==
    \E c \in At("http") :
        /\ task' = Del1(task, c)
        /\ last' = Obs("http", "throw", NULL, "none", 0, "none")
        /\ UNCHANGED <<cred, clientId, clientSecret, now, pending, metrics, calls>>

Next ==
    \/ Tick
    \/ Authenticate
    \/ ExecutorGetToken
    \/ UpdateCampaignStatus
    \/ ForegroundResolve
    \/ ForegroundReject
    \/ BackgroundResolve
    \/ BackgroundReject
    \/ HttpFails

\* the token lifecycle, with a LinkedIn API that answers every call with an
\* error (no call is ever reported to MetricsService)
Spec == Init /\ [][Next]_vars

-----------------------------------------------------------------------------
(* A token endpoint that recovers *)

\* the instant (ms after StartTime) from which the token endpoint answers
\* every request with an access_token and a positive expires_in
HealthyFrom == 3300000

Healthy == now >= StartTime + HealthyFrom

\* a response body with an access_token and a positive expires_in
GoodResponse(resp) ==
    /\ resp.access_token \notin {NULL, UNDEFINED}
    /\ resp.expires_in.k = "num" /\ resp.expires_in.v > 0

\* the server was started with the client credentials configured
InitRecover ==
    /\ Init
    /\ clientId = "id"
    /\ clientSecret = "secret"

\* axios.post settles: before HealthyFrom with any outcome, from then on
\* with a good response only
RecoverForegroundResolve == ForegroundResolve /\ (Healthy => GoodResponse(last'.resp))
RecoverBackgroundResolve == BackgroundResolve /\ (Healthy => GoodResponse(last'.resp))
RecoverForegroundReject == ~Healthy /\ ForegroundReject
RecoverBackgroundReject == ~Healthy /\ BackgroundReject

\* authenticate() and getAccessToken() are called one without the other,
\* by ensureAuthenticated and by updateCampaignStatus
EnsureAuthenticated == authenticate("ensureAuthenticated")

NextRecover ==
    \/ Tick
    \/ EnsureAuthenticated
    \/ UpdateCampaignStatus
    \/ RecoverForegroundResolve
    \/ RecoverForegroundReject
    \/ RecoverBackgroundResolve
    \/ RecoverBackgroundReject
    \/ HttpFails

\* the token lifecycle against a token endpoint that fails at will at first
\* and answers every request from HealthyFrom on; a request in flight is
\* eventually settled and its continuation run by the event loop
SpecRecover ==
    /\ InitRecover
    /\ [][NextRecover]_vars
    /\ WF_vars(RecoverForegroundResolve)
    /\ WF_vars(RecoverBackgroundResolve)

-----------------------------------------------------------------------------
(* Calls reported to MetricsService *)

PathPeopleAbc == PathPeople \o <<"/", "a", "b", "c">>
PathRestAdAccounts == <<"/", "r", "e", "s", "t", "/", "a", "d", "A", "c", "c", "o", "u", "n", "t", "s">>

\* resource paths the executors are called with
ApiPaths == {PathMe, PathRestAdAccounts}

\* Date.now() - startTime of a call, in ms
ResponseTimes == {10, 40}

MaxCalls == 2

\* recordRequest(endpoint, ms) is called; the call is logged with its time
RecordCall(endpoint, ms) ==
    /\ recordRequest(endpoint, ms)
    /\ calls' = Append(calls, [endpoint |-> endpoint, ms |-> ms, at |-> now])

\* the outbound API call succeeds: a request executor measures the time
\* taken and reports the call (client.service.ts 345-346, 553-554;
\* marketing.service.ts 85-86); updateCampaignStatus returns the response
\* data and reports nothing (marketing.service.ts 325-326)
HttpSucceeds ==
    \E c \in At("http") :
        /\ task' = Del1(task, c)
        /\ last' = Obs("http", "ok", NULL, "none", 0, "none")
        /\ IF c.kind \in Executors
           THEN \E endpoint \in ApiPaths, ms \in ResponseTimes :
                    /\ Len(calls) < MaxCalls
                    /\ RecordCall(endpoint, ms)
           ELSE UNCHANGED <<metrics, calls>>
        /\ UNCHANGED <<cred, clientId, clientSecret, now, pending>>

\* a server started with a long-lived access token and no expiry, nothing
\* in flight and nothing recorded
Idle ==
    /\ now = StartTime
    /\ accessToken = "seed"
    /\ refreshToken = NULL
    /\ tokenExpiry = Null
    /\ clientId = "id"
    /\ clientSecret = "secret"
    /\ pending = EmptyBag
    /\ task = EmptyBag
    /\ MetricsInit
    /\ calls = <<>>

InitCalls == Idle /\ last = Obs("init", "none", NULL, "none", 0, "none")

NextCalls ==
    \/ Tick
    \/ Authenticate
    \/ ExecutorGetToken
    \/ UpdateCampaignStatus
    \/ HttpSucceeds
    \/ HttpFails

\* the request executors against a LinkedIn API that answers
SpecCalls == InitCalls /\ [][NextCalls]_vars

-----------------------------------------------------------------------------
(* MetricsService under load *)

\* a server that holds a long-lived token and has no request in flight
InitMetrics == InitCalls

\* resetMetrics() is called; the step shows which categories had requests
\* counted when it began
ResetMetrics ==
    /\ resetMetrics
    /\ calls' = <<>>
    /\ last' = [op |-> "resetMetrics",
                cleared |-> {c \in Categories : requestCounts[c] > 0}]
    /\ UNCHANGED <<auth, now>>

\* A steady load on one endpoint, one call per millisecond, the k-th call
\* since the last reset taking SteadyTime(k) ms
MaxSteady == 150

SteadyTime(k) == (37 * k) % 101

SteadyTick ==
    /\ last.op # "clock"
    /\ now < StartTime + MaxSteady
    /\ now' = now + 1
    /\ last' = Obs("clock", "none", NULL, "none", 0, "none")
    /\ UNCHANGED <<auth, metrics, calls>>

RecordSteady ==
    /\ last.op = "clock"
    /\ RecordCall(PathPeopleAbc, SteadyTime(Len(calls) + 1))
    /\ last' = Obs("recordRequest", "ok", NULL, "none", 0, "none")
    /\ UNCHANGED <<auth, now>>

NextHistory == SteadyTick \/ RecordSteady \/ ResetMetrics

SpecHistory == InitMetrics /\ [][NextHistory]_vars

-----------------------------------------------------------------------------
(* Category resolution as a function of the endpoint *)

PathMeetings == PathMe \o <<"e", "t", "i", "n", "g", "s">>

\* every string that starts s
Prefixes(s) == {SubSeq(s, 1, k) : k \in 0..Len(s)}

\* endpoints at, below, beside and beyond the prefixes of the table
EndpointInputs ==
    UNION {Prefixes(s) : s \in {PathSearchPeople \o <<"/", "x">>,
                                 PathPeopleAbc,
                                 PathJobs \o <<"x">>,
                                 PathMessages \o <<"/", "1">>,
                                 PathConnections,
                                 PathMeetings,
                                 PathNetworkSizes \o <<"/", "~">>,
                                 PathAuth,
                                 PathRestAdAccounts}}

\* an endpoint is about to be resolved
InitCategory ==
    /\ Idle
    /\ \E endpoint \in EndpointInputs :
          last = [op |-> "endpoint", endpoint |-> endpoint, category |-> "none"]

\* getCategoryFromEndpoint(endpoint) returns
ResolveEndpoint ==
    /\ last.op = "endpoint"
    /\ last' = [op |-> "getCategoryFromEndpoint", endpoint |-> last.endpoint,
                category |-> getCategoryFromEndpoint(last.endpoint)]
    /\ UNCHANGED <<auth, now, metrics, calls>>

NextCategory == ResolveEndpoint

SpecCategory == InitCategory /\ [][NextCategory]_vars

-----------------------------------------------------------------------------
(* Percentiles of short histories *)

\* response times recorded, in ms
SampleTimes == {10, 20, 30, 40, 50}

MaxSamples == 5

RecordSample ==
    \E ms \in SampleTimes :
        /\ Len(calls) < MaxSamples
        /\ RecordCall(PathPeopleAbc, ms)
        /\ last' = Obs("recordRequest", "ok", NULL, "none", 0, "none")
        /\ UNCHANGED <<auth, now>>

NextPercentile == RecordSample

SpecPercentile == InitMetrics /\ [][NextPercentile]_vars

-----------------------------------------------------------------------------
(* MetricsService used by several endpoints *)

\* endpoints of three categories: profile, search, other
Endpoints == {PathPeopleAbc, PathSearchPeople, PathRestAdAccounts}

MaxRecords == 3

RecordRequest ==
    \E endpoint \in Endpoints, ms \in ResponseTimes :
        /\ Len(calls) < MaxRecords
        /\ RecordCall(endpoint, ms)
        /\ last' = Obs("recordRequest", "ok", NULL, "none", 0, "none")
        /\ UNCHANGED <<auth, now>>

NextMetrics == Tick \/ RecordRequest \/ ResetMetrics

SpecMetrics == InitMetrics /\ [][NextMetrics]_vars

-----------------------------------------------------------------------------
(* Reading the metrics *)

\* what a read leaves in the history of a category: an empty history
\* returns before the sort (line 79-91), another one is spread and sorted
\* (line 92)
storedAfterRead(category) ==
    IF Len(responseTimes[category]) = 0
    THEN responseTimes[category]
    ELSE storedAfterSort(responseTimes[category])

\* getMetricsForCategory(category) is called and returns
GetMetricsForCategory ==
    \E category \in Categories :
        /\ responseTimes' = [responseTimes EXCEPT ![category] = storedAfterRead(category)]
        /\ last' = [op |-> "getMetricsForCategory", category |-> category,
                    returned |-> getMetricsForCategory(category)]
        /\ UNCHANGED <<requestCounts, lastRequestTimestamps, calls, auth, now>>

\* getDetailedMetrics() is called and returns: allTimes is a new array
\* (flat), sorted through a copy, and getMetricsForCategory runs once for
\* each category
GetDetailedMetrics ==
    /\ responseTimes' = [category \in Categories |-> storedAfterRead(category)]
    /\ last' = [op |-> "getDetailedMetrics", returned |-> getDetailedMetrics]
    /\ UNCHANGED <<requestCounts, lastRequestTimestamps, calls, auth, now>>

NextReads == RecordRequest \/ GetMetricsForCategory \/ GetDetailedMetrics

\* requests recorded and metrics read in any order
SpecReads == InitMetrics /\ [][NextReads]_vars

-----------------------------------------------------------------------------
(* Vocabulary of the properties below, stated apart from the code's helpers *)

\* a token is held: the field is neither null nor undefined
Held(tok) == tok \notin {NULL, UNDEFINED}

AllAbsent(a, r, e) == a = NULL /\ r = NULL /\ e = Null

FiveMinutes == 300000

\* expiresAt is absent, or a time still ahead of now
ExpiryAbsentOrAhead ==
    tokenExpiry = Null \/ (tokenExpiry.k = "num" /\ now < tokenExpiry.v)

\* expiresAt is a time that has been reached
ExpiryReached == tokenExpiry.k = "num" /\ now >= tokenExpiry.v

\* expiresAt is less than five minutes ahead of now (or behind it)
ExpiryWithinThreshold == tokenExpiry.k = "num" /\ tokenExpiry.v - now < FiveMinutes

\* expiresAt is absent or at least five minutes ahead of now
ExpiryAbsentOrFar ==
    tokenExpiry = Null \/ (tokenExpiry.k = "num" /\ tokenExpiry.v - now >= FiveMinutes)

\* no caller got past authenticate()/getAccessToken() in this step
NoCallerProceeds ==
    \A c \in BagToSet(task') :
        c.pc \in {"authed", "http"} => CopiesIn(c, task') <= CopiesIn(c, task)

\* a caller sent its HTTP call in this step
SomeCallerProceeds ==
    \E c \in BagToSet(task') : c.pc = "http" /\ CopiesIn(c, task') > CopiesIn(c, task)

\* the table prefixes an endpoint starts with that no other such prefix exceeds in length
LongestPrefixes(endpoint) ==
    LET matches == {i \in 1..Len(categoryMapping) :
                        startsWith(endpoint, categoryMapping[i].prefix)}
    IN  {i \in matches :
            \A j \in matches :
                Len(categoryMapping[j].prefix) <= Len(categoryMapping[i].prefix)}

\* the categories an endpoint resolves to by the longest-prefix rule
ResolvedCategories(endpoint) ==
    LET longest == LongestPrefixes(endpoint)
    IN  IF longest = {} THEN {"other"} ELSE {categoryMapping[i].category : i \in longest}

\* the logged calls that resolve to category c, oldest first
CallsOf(c) ==
    LET endpoints == {calls[i].endpoint : i \in 1..Len(calls)}
        resolved == {e \in endpoints : c \in ResolvedCategories(e)}
    IN  SelectSeq(calls, LAMBDA call : call.endpoint \in resolved)

\* their samples
SamplesOf(c) == LET mine == CallsOf(c) IN [i \in 1..Len(mine) |-> mine[i].ms]

\* the last k elements of s
LastOf(s, k) == SubSeq(s, Len(s) - k + 1, Len(s))

Min(a, b) == IF a <= b THEN a ELSE b

HistoryCapacity == 100

\* the k-th smallest sample of h, counting from 1
Kth(h, k) ==
    CHOOSE v \in {h[i] : i \in 1..Len(h)} :
        /\ Cardinality({i \in 1..Len(h) : h[i] < v}) < k
        /\ Cardinality({i \in 1..Len(h) : h[i] <= v}) >= k

Percentiles == {50, 90, 95, 99}

\* the p-th percentile a MetricData reports
Reported(m, p) ==
    CASE p = 50 -> m.p50ResponseTime
      [] p = 90 -> m.p90ResponseTime
      [] p = 95 -> m.p95ResponseTime
      [] p = 99 -> m.p99ResponseTime

\* index (p/100)*(n-1) into the ascending samples of h, counted from 0: its
\* whole part and its fractional part in hundredths
IndexFloor(h, p) == (p * (Len(h) - 1)) \div 100
IndexFraction100(h, p) == (p * (Len(h) - 1)) % 100

\* a hundred times the value at that index: the element there when the
\* index is whole, else the floor and ceil elements weighted by the
\* fractional part
Interpolated100(h, p) ==
    IF IndexFraction100(h, p) = 0
    THEN 100 * Kth(h, IndexFloor(h, p) + 1)
    ELSE Kth(h, IndexFloor(h, p) + 1) * (100 - IndexFraction100(h, p))
           + Kth(h, IndexFloor(h, p) + 2) * IndexFraction100(h, p)

\* the samples 10, 20, 30, 40, 50 in any order
IsExampleHistory(h) == Len(h) = 5 /\ {h[i] : i \in 1..Len(h)} = {10, 20, 30, 40, 50}

\* every retained sample, category after category
MergedSamples ==
    responseTimes["other"] \o responseTimes["auth"] \o responseTimes["connection"]
        \o responseTimes["message"] \o responseTimes["job"]
        \o responseTimes["profile"] \o responseTimes["search"]

\* h in ascending order
Ascending(h) == [k \in 1..Len(h) |-> Kth(h, k)]

RECURSIVE Total(_)
Total(h) == IF h = <<>> THEN 0 ELSE Head(h) + Total(Tail(h))

\* the requestCount getMetricsForCategory(c) reports
CountReported(c) == CHOOSE n \in {m.requestCount : m \in getMetricsForCategory(c)} : TRUE

RECURSIVE SumCountsReported(_)
SumCountsReported(S) ==
    IF S = {} THEN 0
    ELSE LET c == CHOOSE x \in S : TRUE
         IN  CountReported(c) + SumCountsReported(S \ {c})

\* the per-category timestamps that are not absent
TimestampsPresent == {lastRequestTimestamps[c].v : c \in {d \in Categories : lastRequestTimestamps[d] # Null}}

Largest(S) == CHOOSE t \in S : \A u \in S : u <= t

\* a MetricData with nothing counted, no timestamp and every statistic 0
IsZero(m) == m = MetricData(0, Null, 0, 0, 0, 0, 0, 0, 0)

\* seq back to front
Reverse(seq) == [i \in 1..Len(seq) |-> seq[Len(seq) - i + 1]]

\* the table in other orders: reversed, rotated by one, rotated by five
TableOrders ==
    {categoryMapping,
     Reverse(categoryMapping),
     Tail(categoryMapping) \o <<Head(categoryMapping)>>,
     SubSeq(categoryMapping, 6, 8) \o SubSeq(categoryMapping, 1, 5)}

-----------------------------------------------------------------------------
(* Properties *)

\* C1: authenticate() called while a token is held and expiresAt is absent or
\* still ahead posts no token-endpoint request, invokes no fetch, resolves,
\* and leaves accessToken, refreshToken and tokenExpiry as they were.
C1_AuthenticateIdempotent ==
    [][(last'.op = "authenticate" /\ Held(accessToken) /\ ExpiryAbsentOrAhead)
        => /\ last'.result = "ok"
           /\ last'.fetch = "none"
           /\ last'.sent = 0
           /\ pending' = pending
           /\ InFlight' = InFlight
           /\ cred' = cred]_vars

\* C1 witness: a fetched token is held, still valid, and authenticate() has
\* just returned without fetching.
C1_Witness ==
    /\ last.op = "authenticate" /\ last.result = "ok"
    /\ accessToken = "tokA" /\ tokenExpiry.k = "num" /\ now < tokenExpiry.v

\* C2: whenever a token is held, getAccessToken() returns exactly the token
\* held when the call started, never an absent value.
C2_ReturnsHeldToken ==
    (last.op = "getAccessToken" /\ Held(last.pre))
        => (last.result = "ok" /\ last.ret = last.pre)

\* C3: when a background refresh is rejected while a token is held whose
\* expiresAt is absent or still ahead, that token and its expiry stay in
\* place, so getAccessToken() keeps returning it.
C3_BackgroundFailureKeepsToken ==
    [][(/\ last'.op = "fetchToken" /\ last'.origin = "background"
        /\ last'.result = "throw"
        /\ Held(accessToken) /\ ExpiryAbsentOrAhead)
        => (accessToken' = accessToken /\ tokenExpiry' = tokenExpiry)]_vars

\* C4: a failed foreground fetch rejects authenticate(), leaves accessToken,
\* refreshToken and tokenExpiry absent, and getAccessToken() then throws.
C4_ForegroundFailureResets ==
    [][((last'.op = "fetchToken" /\ last'.origin = "foreground" /\ last'.result = "throw")
        \/ (last'.op = "authenticate" /\ last'.result = "throw"))
        => /\ AllAbsent(accessToken', refreshToken', tokenExpiry')
           /\ getAccessTokenThrows'
           /\ NoCallerProceeds]_vars

\* C4 witness: a token was held when the foreground fetch failed, and the
\* credential is now cleared.
C4_Witness ==
    /\ last.op = "fetchToken" /\ last.origin = "foreground" /\ last.result = "throw"
    /\ Held(last.pre)
    /\ AllAbsent(accessToken, refreshToken, tokenExpiry)

\* C5: a request executor whose HTTP call is in flight sent it with a
\* present token.
C5_NoCallWithoutToken ==
    \A c \in At("http") : c.kind \in Executors => Held(c.token)

\* C6: getAccessToken() with a token held invokes fetchToken('refresh_token')
\* exactly once, in the background and without waiting, when expiresAt is
\* within five minutes; it invokes no fetch and changes nothing when
\* expiresAt is absent or at least five minutes ahead.
C6_RefreshThreshold ==
    [][(last'.op = "getAccessToken" /\ Held(accessToken))
        => /\ ExpiryWithinThreshold
                => /\ last'.fetch = "refresh_token"
                   /\ last'.origin = "background"
                   /\ last'.result = "ok"
                   /\ last'.sent =
                        (IF Held(clientId) /\ Held(clientSecret) /\ Held(refreshToken)
                         THEN 1 ELSE 0)
                   /\ pending' =
                        (IF last'.sent = 1
                         THEN Add1(pending, [grant_type |-> "refresh_token",
                                             refresh_token |-> refreshToken])
                         ELSE pending)
                   /\ SomeCallerProceeds
           /\ ExpiryAbsentOrFar
                => /\ last'.fetch = "none"
                   /\ last'.sent = 0
                   /\ pending' = pending
                   /\ cred' = cred]_vars

\* C6 witness: seeded with 3600 s, at 3596 s getAccessToken() returned the
\* seeded token and left one refresh_token request in flight.
C6_Witness ==
    /\ last.op = "getAccessToken" /\ last.ret = "seed"
    /\ last.fetch = "refresh_token" /\ last.sent = 1
    /\ now = StartTime + 3596000
    /\ tokenExpiry = Num(StartTime + 3600000)
    /\ pending = SetToBag({[grant_type |-> "refresh_token", refresh_token |-> "refA"]})

\* C7: when the background refresh started by a getAccessToken() call fails,
\* that call still does not throw and returns the token that was held.
C7_BackgroundFailureNotPropagated ==
    (last.op = "getAccessToken" /\ last.fetch = "refresh_token" /\ last.sent = 0)
        => (last.result = "ok" /\ Held(last.ret))

\* C8: getAccessToken() with no access token held throws, invokes no fetch
\* and leaves the credential as it was.
C8_ThrowsWhenNoToken ==
    [][(last'.op = "getAccessToken" /\ ~Held(accessToken))
        => /\ last'.result = "throw"
           /\ last'.fetch = "none"
           /\ last'.sent = 0
           /\ pending' = pending
           /\ cred' = cred
           /\ NoCallerProceeds]_vars

\* C8 witness: getAccessToken() has just thrown with a refresh token and an
\* expiry still stored but no access token.
C8_Witness ==
    /\ last.op = "getAccessToken" /\ last.result = "throw"
    /\ ~Held(accessToken) /\ Held(refreshToken) /\ tokenExpiry.k = "num"

\* C9: authenticate() without a valid token (none held, or expiresAt reached)
\* invokes exactly one foreground fetch, with grant refresh_token if a refresh
\* token is held and client_credentials otherwise; the request posted carries
\* that grant and, for refresh_token, the held refresh token.
C9_ForegroundGrant ==
    [][(last'.op = "authenticate" /\ (~Held(accessToken) \/ ExpiryReached))
        => LET g == IF Held(refreshToken) THEN "refresh_token" ELSE "client_credentials"
           IN  /\ last'.fetch = g
               /\ last'.origin = "foreground"
               /\ last'.sent = (IF Held(clientId) /\ Held(clientSecret) THEN 1 ELSE 0)
               /\ InFlight' = InFlight + last'.sent
               /\ last'.sent = 1 =>
                    \E c \in BagToSet(task') :
                        /\ c.pc = "awaitFetch"
                        /\ CopiesIn(c, task') = CopiesIn(c, task) + 1
                        /\ c.req = [grant_type |-> g,
                                    refresh_token |-> IF g = "refresh_token"
                                                      THEN refreshToken ELSE UNDEFINED]
               /\ pending' = pending
               /\ NoCallerProceeds]_vars

\* C9 witness: an expired token and a refresh token were held, and
\* authenticate() has posted a refresh_token request.
C9_Witness ==
    /\ last.op = "authenticate" /\ last.fetch = "refresh_token" /\ last.sent = 1
    /\ Held(accessToken) /\ ExpiryReached
    /\ \E c \in At("awaitFetch") :
          c.req.grant_type = "refresh_token" /\ c.req.refresh_token = refreshToken

\* C10: a foreground fetch that authenticate() reports as successful leaves
\* an access token held.
C10_SuccessMeansTokenHeld ==
    (last.op = "fetchToken" /\ last.origin = "foreground" /\ last.result = "ok")
        => Held(accessToken)

\* C11: authenticate() that has to fetch (no token held, or expiresAt reached)
\* while the client id or the client secret is not configured fails with an
\* error, posts no token-endpoint request, leaves accessToken, refreshToken
\* and tokenExpiry absent, and schedules nothing that would try again.
C11_NoCredentialsFailsWithoutRequest ==
    [][(/\ last'.op = "authenticate"
        /\ (~Held(accessToken) \/ ExpiryReached)
        /\ (~Held(clientId) \/ ~Held(clientSecret)))
        => /\ last'.result = "throw"
           /\ last'.sent = 0
           /\ pending' = pending
           /\ task' = task
           /\ InFlight' = InFlight
           /\ AllAbsent(accessToken', refreshToken', tokenExpiry')]_vars

\* C11 witness: an expired seeded token was held, with a
\* client id but no client secret; authenticate() has thrown, nothing is in
\* flight and the credential is cleared.
C11_Witness ==
    /\ last.op = "authenticate" /\ last.result = "throw"
    /\ last.pre = "seed"
    /\ Held(clientId) /\ ~Held(clientSecret)
    /\ InFlight = 0
    /\ AllAbsent(accessToken, refreshToken, tokenExpiry)

\* C12: every category's history holds at most 100 samples and is exactly
\* the most recent min(n, 100) of the n samples recorded for that category
\* since construction or the last reset, in the order they were recorded.
C12_HistoryIsFifoWindow ==
    \A c \in Categories :
        LET recorded == SamplesOf(c)
        IN  /\ Len(responseTimes[c]) <= HistoryCapacity
            /\ responseTimes[c] = LastOf(recorded, Min(Len(recorded), HistoryCapacity))

\* C12 witness: 150 samples were recorded into one category; its history
\* holds the 51st to the 150th of them.
C12_Witness ==
    /\ Len(calls) = 150
    /\ Len(responseTimes["profile"]) = 100
    /\ responseTimes["profile"][1] = calls[51].ms
    /\ responseTimes["profile"][100] = calls[150].ms
    /\ calls[50].ms # calls[51].ms

\* C13: for every category, the requestCount reported is the number of
\* recordRequest calls that resolved to it since construction or the last
\* reset and the lastRequestTimestamp reported is the time of the latest of
\* them (absent when there is none), however many samples left the window;
\* while the category's history is empty every other field reported is 0.
C13_CountAndTimestampAreAllTime ==
    \A c \in Categories : \A reported \in getMetricsForCategory(c) :
        LET mine == CallsOf(c)
        IN  /\ reported.requestCount = Len(mine)
            /\ reported.lastRequestTimestamp =
                    (IF mine = <<>> THEN Null ELSE Num(mine[Len(mine)].at))
            /\ responseTimes[c] = <<>> =>
                    /\ reported.averageResponseTime = 0
                    /\ reported.p50ResponseTime = 0
                    /\ reported.p90ResponseTime = 0
                    /\ reported.p95ResponseTime = 0
                    /\ reported.p99ResponseTime = 0
                    /\ reported.minResponseTime = 0
                    /\ reported.maxResponseTime = 0

\* C13 witness: 150 calls were recorded into one category at 150 different
\* times; 100 samples are retained, the count reported is 150 and the
\* timestamp reported is the time of the 150th call.
C13_Witness ==
    /\ Len(calls) = 150
    /\ Len(responseTimes["profile"]) = 100
    /\ \E reported \in getMetricsForCategory("profile") :
          /\ reported.requestCount = 150
          /\ reported.lastRequestTimestamp = Num(calls[150].at)
    /\ calls[150].at > calls[149].at

\* C14: getCategoryFromEndpoint returns, for every endpoint, the one
\* category bound to the longest table prefix the endpoint starts with, and
\* "other" when it starts with none; the result is the same for any order of
\* the table; /people/abc gives profile, /search/people gives search and
\* /messages gives message.
C14_LongestPrefixCategory ==
    last.op = "getCategoryFromEndpoint" =>
        /\ last.category \in Categories
        /\ ResolvedCategories(last.endpoint) = {last.category}
        /\ (LongestPrefixes(last.endpoint) = {}) => (last.category = "other")
        /\ \A table \in TableOrders : getCategoryFrom(table, last.endpoint) = last.category
        /\ (last.endpoint = PathPeopleAbc) => (last.category = "profile")
        /\ (last.endpoint = PathSearchPeople) => (last.category = "search")
        /\ (last.endpoint = PathMessages) => (last.category = "message")

\* C14 witness: /messages, which starts with both /me and /messages, has
\* been resolved to message.
C14_Witness ==
    /\ last.op = "getCategoryFromEndpoint"
    /\ last.endpoint = PathMessages
    /\ startsWith(last.endpoint, PathMe)
    /\ last.category = "message"

\* C15 (as stated): for a non-empty history and p in {50, 90, 95, 99} the
\* percentile reported is the value at index (p/100)*(n-1) of the ascending
\* samples: the element there when the index is whole, otherwise exactly
\* the linear interpolation between the floor and ceil elements.
C15_PercentileIsInterpolation ==
    \A c \in Categories : responseTimes[c] # <<>> =>
        \A m \in getMetricsForCategory(c), p \in Percentiles :
            100 * Reported(m, p) = Interpolated100(responseTimes[c], p)

\* C15 (amended): for a non-empty history and p in {50, 90, 95, 99} the
\* percentile reported is the element at index (p/100)*(n-1) of the
\* ascending samples when the index is whole, and otherwise the linear
\* interpolation between the floor and ceil elements rounded to a nearest
\* integer (at most 1/2 away from it); for 10, 20, 30, 40, 50 it reports
\* p50 = 30 and p90 = 46.
C15_PercentileIsRoundedInterpolation ==
    \A c \in Categories : responseTimes[c] # <<>> =>
        \A m \in getMetricsForCategory(c) :
            /\ \A p \in Percentiles :
                  LET off == 100 * Reported(m, p) - Interpolated100(responseTimes[c], p)
                  IN  IF IndexFraction100(responseTimes[c], p) = 0
                      THEN off = 0
                      ELSE -50 <= off /\ off <= 50
            /\ IsExampleHistory(responseTimes[c]) =>
                  (m.p50ResponseTime = 30 /\ m.p90ResponseTime = 46)

\* C15 witness: 50, 10, 40, 20, 30 were recorded in that order; p50 = 30 and
\* p90 = 46 are reported, and p99, interpolated to 49.6, is reported as 50.
C15_Witness ==
    /\ responseTimes["profile"] = <<50, 10, 40, 20, 30>>
    /\ Interpolated100(responseTimes["profile"], 99) = 4960
    /\ \E m \in getMetricsForCategory("profile") :
          m.p50ResponseTime = 30 /\ m.p90ResponseTime = 46 /\ m.p99ResponseTime = 50

\* C16: overall is the MetricData of all retained samples taken together:
\* its requestCount is the sum of the requestCounts reported per category;
\* with no sample retained its statistics are 0; otherwise its min and max
\* are the smallest and largest retained sample, its average is their mean
\* rounded, and each percentile is what getPercentile gives on the merged
\* samples in ascending order; byCategory[c] is getMetricsForCategory(c)
\* for each of the seven categories.
C16_OverallIsMetricDataOfMerged ==
    /\ \A o \in getDetailedMetrics.overall :
          /\ o.requestCount = SumCountsReported(Categories)
          /\ IF MergedSamples = <<>>
             THEN /\ o.minResponseTime = 0 /\ o.maxResponseTime = 0
                  /\ o.averageResponseTime = 0
                  /\ \A p \in Percentiles : Reported(o, p) = 0
             ELSE /\ o.minResponseTime = Kth(MergedSamples, 1)
                  /\ o.maxResponseTime = Kth(MergedSamples, Len(MergedSamples))
                  /\ LET off == 2 * (o.averageResponseTime * Len(MergedSamples)
                                       - Total(MergedSamples))
                     IN  -Len(MergedSamples) < off /\ off <= Len(MergedSamples)
                  /\ \A p \in Percentiles :
                        Reported(o, p) \in getPercentile(Ascending(MergedSamples), p)
    /\ DOMAIN getDetailedMetrics.byCategory = Categories
    /\ Cardinality(Categories) = 7
    /\ \A c \in Categories : getDetailedMetrics.byCategory[c] = getMetricsForCategory(c)

\* C16 witness: samples 40, 10 and 40 are retained in three different
\* categories; overall reports count 3, min 10, max 40, average 30, p50 40.
C16_Witness ==
    /\ responseTimes["profile"] = <<40>>
    /\ responseTimes["search"] = <<10>>
    /\ responseTimes["other"] = <<40>>
    /\ \E o \in getDetailedMetrics.overall :
          /\ o.requestCount = 3
          /\ o.minResponseTime = 10 /\ o.maxResponseTime = 40
          /\ o.averageResponseTime = 30 /\ o.p50ResponseTime = 40

\* C17: overall.lastRequestTimestamp is the largest of the per-category
\* lastRequestTimestamps that are not absent, and absent when every
\* category's is absent.
C17_OverallTimestampIsLatest ==
    \A o \in getDetailedMetrics.overall :
        o.lastRequestTimestamp =
            (IF TimestampsPresent = {} THEN Null ELSE Num(Largest(TimestampsPresent)))

\* C17 witness: two categories hold different timestamps, a third none;
\* overall reports the later one.
C17_Witness ==
    /\ lastRequestTimestamps["profile"] = Num(StartTime)
    /\ lastRequestTimestamps["search"] = Num(StartTime + 3300000)
    /\ lastRequestTimestamps["other"] = Null
    /\ \E o \in getDetailedMetrics.overall :
          o.lastRequestTimestamp = Num(StartTime + 3300000)

\* C18: once resetMetrics() has run, and until the next request is
\* recorded, every category has requestCount 0, no lastRequestTimestamp and
\* an empty history, all together, and getDetailedMetrics() reports a zero
\* MetricData with no timestamp for overall and for every category.
C18_ResetClearsEverything ==
    (last.op = "resetMetrics" \/ calls = <<>>) =>
        /\ \A c \in Categories :
              /\ requestCounts[c] = 0
              /\ lastRequestTimestamps[c] = Null
              /\ responseTimes[c] = <<>>
        /\ \A o \in getDetailedMetrics.overall : IsZero(o)
        /\ \A c \in Categories : \A m \in getDetailedMetrics.byCategory[c] : IsZero(m)

\* C18 witness: resetMetrics() has just run on a state that had requests
\* counted in three categories, and everything is cleared.
C18_Witness ==
    /\ last.op = "resetMetrics"
    /\ last.cleared = {"profile", "search", "other"}
    /\ \A c \in Categories : requestCounts[c] = 0 /\ responseTimes[c] = <<>>
    /\ \A o \in getDetailedMetrics.overall : IsZero(o)

\* C19: every outbound API call that completes is followed, in the step in
\* which it completes, by exactly one recordRequest call, so that the calls
\* are logged in the order in which they completed.
C19_EveryCompletedCallRecorded ==
    [][(last'.op = "http" /\ last'.result = "ok")
        => /\ Len(calls') = Len(calls) + 1
           /\ SubSeq(calls', 1, Len(calls)) = calls
           /\ calls'[Len(calls')].at = now]_vars

\* C20: a getAccessToken() call made within five minutes of expiresAt, with
\* client credentials and a refresh token held, posts its own refresh
\* request however many are already in flight (they are not merged into
\* one); and every background fetch that succeeds overwrites the access
\* token with the one it received, so the token left after several succeed
\* is that of the fetch that completed last.
C20_NoDeduplicationLastWriterWins ==
    [][/\ (/\ last'.op = "getAccessToken"
           /\ Held(accessToken) /\ ExpiryWithinThreshold
           /\ Held(clientId) /\ Held(clientSecret) /\ Held(refreshToken))
          => /\ last'.sent = 1
             /\ BagCardinality(pending') = BagCardinality(pending) + 1
             /\ cred' = cred
       /\ (last'.op = "fetchToken" /\ last'.origin = "background" /\ last'.result = "ok")
          => /\ accessToken' = last'.ret
             /\ BagCardinality(pending') = BagCardinality(pending) - 1]_vars

\* C20 witness: two getAccessToken() calls were made within the threshold
\* before any refresh completed; the second has just returned and two
\* refresh requests are in flight.
C20_Witness ==
    /\ last.op = "getAccessToken" /\ last.sent = 1 /\ last.ret = "seed"
    /\ accessToken = "seed" /\ ExpiryWithinThreshold
    /\ BagCardinality(pending) = 2

\* the access tokens a token-endpoint response can supply
FetchedTokens == ResponseAccessTokens \ {UNDEFINED}

\* C21: a fetch that resolves with an access_token and a numeric expires_in
\* stores that access_token as accessToken and sets expiresAt to the time
\* of the response plus expires_in seconds; while a fetched token is held,
\* authenticate() is a no-op before that expiresAt and fetches in the
\* foreground once it is reached.
C21_SuccessStoresTokenAndExpiry ==
    [][/\ (/\ last'.op = "fetchToken" /\ last'.result = "ok"
           /\ Held(last'.resp.access_token) /\ last'.resp.expires_in.k = "num")
          => /\ accessToken' = last'.resp.access_token
             /\ tokenExpiry' = Num(now + 1000 * last'.resp.expires_in.v)
       /\ (/\ last'.op = "authenticate"
           /\ accessToken \in FetchedTokens /\ tokenExpiry.k = "num")
          => IF now < tokenExpiry.v
             THEN /\ last'.result = "ok" /\ last'.fetch = "none" /\ last'.sent = 0
                  /\ InFlight' = InFlight
                  /\ cred' = cred
             ELSE /\ last'.result # "ok" /\ last'.fetch # "none"
                  /\ last'.origin = "foreground"]_vars

\* C21 witness: tokB was fetched at the start with expires_in 3600; 3596 s
\* later authenticate() has returned without fetching.
C21_Witness ==
    /\ last.op = "authenticate" /\ last.result = "ok" /\ last.fetch = "none"
    /\ accessToken = "tokB"
    /\ tokenExpiry = Num(StartTime + 3600000)
    /\ now = StartTime + 3596000

\* C22: a fetch that resolves with an access_token replaces the held
\* refreshToken by the response's refresh_token when the response supplies
\* one, and leaves the refreshToken held before the fetch resolved as it
\* was when the response omits it.
C22_RefreshTokenKeptUnlessSupplied ==
    [][(/\ last'.op = "fetchToken" /\ last'.result = "ok"
        /\ Held(last'.resp.access_token))
        => refreshToken' = (IF Held(last'.resp.refresh_token)
                            THEN last'.resp.refresh_token
                            ELSE refreshToken)]_vars

\* C22 witness: a refresh_token fetch made with refA has resolved with a
\* response that carries no refresh_token, and refA is still held.
C22_Witness ==
    /\ last.op = "fetchToken" /\ last.result = "ok"
    /\ last.fetch = "refresh_token"
    /\ last.resp.access_token = "tokA"
    /\ last.resp.refresh_token = UNDEFINED
    /\ refreshToken = "refA"

\* the step just taken was a fetch that failed: a rejected request, or a
\* fetchToken call that threw before posting one
FailedFetch(obs) ==
    \/ (obs.op = "fetchToken" /\ obs.result = "throw")
    \/ (obs.op = "authenticate" /\ obs.result = "throw")
    \/ (obs.op = "getAccessToken" /\ obs.fetch = "refresh_token" /\ obs.sent = 0)

\* the step just taken was a background fetch resolving, with an
\* access_token, onto a credential that a failed fetch had cleared, and no
\* authenticate() call is waiting
ResolvedAfterFailure(obs) ==
    /\ obs.op = "fetchToken" /\ obs.result = "ok" /\ obs.origin = "background"
    /\ obs.pre = NULL
    /\ Held(obs.ret)
    /\ At("awaitFetch") = {}

\* authenticate() fetched in the foreground with the client_credentials grant
FreshAcquisition(obs) ==
    /\ obs.op = "authenticate"
    /\ obs.result # "ok"
    /\ obs.fetch = "client_credentials"
    /\ obs.origin = "foreground"

\* C23 (as stated): after any failed fetch accessToken, refreshToken and
\* expiresAt are all absent, and the next authenticate() call after the
\* failure (directly after it, or after a fetch that was still in flight has
\* resolved) fetches in the foreground with client_credentials instead of
\* returning as a no-op.
C23_FailureForcesFreshAcquisition ==
    [][/\ FailedFetch(last') => AllAbsent(accessToken', refreshToken', tokenExpiry')
       /\ (last'.op = "authenticate" /\ (FailedFetch(last) \/ ResolvedAfterFailure(last)))
          => FreshAcquisition(last')]_vars

\* C23 (amended): after any failed fetch accessToken, refreshToken and
\* expiresAt are all absent; they stay absent until a fetch resolves; and
\* an authenticate() call made while they are absent fetches in the
\* foreground with client_credentials (posting a request when the client
\* credentials are configured) instead of returning as a no-op.
C23_FailureClearsUntilAFetchResolves ==
    [][/\ FailedFetch(last') => AllAbsent(accessToken', refreshToken', tokenExpiry')
       /\ (/\ AllAbsent(accessToken, refreshToken, tokenExpiry)
           /\ ~AllAbsent(accessToken', refreshToken', tokenExpiry'))
          => (last'.op = "fetchToken" /\ last'.result = "ok")
       /\ (last'.op = "authenticate" /\ AllAbsent(accessToken, refreshToken, tokenExpiry))
          => /\ FreshAcquisition(last')
             /\ last'.sent = (IF Held(clientId) /\ Held(clientSecret) THEN 1 ELSE 0)]_vars

\* C23 witness: of two background refreshes one has failed and cleared the
\* credential, the other is still in flight; authenticate() has posted a
\* client_credentials request and the credential is still absent.
C23_Witness ==
    /\ last.op = "authenticate" /\ last.result = "pending"
    /\ last.fetch = "client_credentials" /\ last.sent = 1
    /\ AllAbsent(accessToken, refreshToken, tokenExpiry)
    /\ BagCardinality(pending) = 1

\* C24: every endpoint resolves to one of the seven categories the three
\* records are keyed by, so recordRequest finds its counter, timestamp and
\* history and does not throw; and a recordRequest(endpoint, ms) call adds 1
\* to the counter of the resolved category, sets its lastRequestTimestamp
\* to now and appends ms to its history, leaving the counter, timestamp and
\* history of each of the other six categories as they were.
C24_RecordRequestTouchesOneCategory ==
    /\ \A endpoint \in EndpointInputs :
          getCategoryFromEndpoint(endpoint) \in
              (DOMAIN requestCounts \cap DOMAIN lastRequestTimestamps) \cap DOMAIN responseTimes
    /\ [][last'.op = "recordRequest" =>
            LET call == calls'[Len(calls')]
                resolved == ResolvedCategories(call.endpoint)
            IN  /\ Len(calls') = Len(calls) + 1
                /\ Cardinality(resolved) = 1
                /\ Cardinality(Categories \ resolved) = 6
                /\ \A c \in resolved :
                      /\ requestCounts'[c] = requestCounts[c] + 1
                      /\ lastRequestTimestamps'[c] = Num(now)
                      /\ responseTimes'[c][Len(responseTimes'[c])] = call.ms
                      /\ Len(responseTimes[c]) < HistoryCapacity =>
                            responseTimes'[c] = Append(responseTimes[c], call.ms)
                /\ \A c \in Categories \ resolved :
                      /\ requestCounts'[c] = requestCounts[c]
                      /\ lastRequestTimestamps'[c] = lastRequestTimestamps[c]
                      /\ responseTimes'[c] = responseTimes[c]]_vars

\* C24 witness: /people/abc was recorded at the start with 40 ms; later
\* /search/people has been recorded with 10 ms: search holds the new time
\* and sample, profile still holds its own.
C24_Witness ==
    /\ last.op = "recordRequest"
    /\ Len(calls) = 2 /\ calls[2].endpoint = PathSearchPeople /\ calls[2].ms = 10
    /\ now > StartTime
    /\ requestCounts["search"] = 1 /\ requestCounts["profile"] = 1
    /\ lastRequestTimestamps["search"] = Num(now)
    /\ lastRequestTimestamps["profile"] = Num(StartTime)
    /\ responseTimes["search"] = <<10>> /\ responseTimes["profile"] = <<40>>
    /\ responseTimes["other"] = <<>> /\ lastRequestTimestamps["other"] = Null

\* C25: a getMetricsForCategory or getDetailedMetrics call leaves every
\* category's stored history (contents and insertion order), counter and
\* timestamp exactly as they were before the call.
C25_ReadsArePure ==
    [][last'.op \in {"getMetricsForCategory", "getDetailedMetrics"} =>
        \A c \in Categories :
            /\ responseTimes'[c] = responseTimes[c]
            /\ requestCounts'[c] = requestCounts[c]
            /\ lastRequestTimestamps'[c] = lastRequestTimestamps[c]]_vars

\* C25 witness: 40, 10, 40 were recorded into profile; getMetricsForCategory
\* has returned min 10 and max 40, and the history is still 40, 10, 40.
C25_Witness ==
    /\ last.op = "getMetricsForCategory" /\ last.category = "profile"
    /\ \E m \in last.returned : m.minResponseTime = 10 /\ m.maxResponseTime = 40
    /\ responseTimes["profile"] = <<40, 10, 40>>
    /\ requestCounts["profile"] = 3

\* C26: in every reachable metrics state, for every category, the history
\* length equals min(requestCount, 100); the history is empty exactly when
\* requestCount is 0, and lastRequestTimestamp is absent exactly when
\* requestCount is 0.
C26_HistoryLengthFollowsCount ==
    \A c \in Categories :
        /\ Len(responseTimes[c]) = Min(requestCounts[c], HistoryCapacity)
        /\ (responseTimes[c] = <<>>) <=> (requestCounts[c] = 0)
        /\ (lastRequestTimestamps[c] = Null) <=> (requestCounts[c] = 0)

\* C26 witness: 30 calls were recorded, the metrics were reset, and 120
\* more calls were recorded into profile: its count is 120 and its history
\* holds 100 samples, while search has count 0, no sample and no timestamp.
C26_Witness ==
    /\ now = StartTime + 150
    /\ requestCounts["profile"] = 120
    /\ Len(responseTimes["profile"]) = 100
    /\ lastRequestTimestamps["profile"] = Num(now)
    /\ requestCounts["search"] = 0 /\ responseTimes["search"] = <<>>
    /\ lastRequestTimestamps["search"] = Null

\* C27: for every non-empty history the statistics reported are ordered
\* and bounded by the window: min <= p50 <= p90 <= p95 <= p99 <= max, where
\* min and max are the smallest and the largest retained sample; with a
\* single sample all six equal that sample.
C27_StatisticsOrdered ==
    \A c \in Categories : responseTimes[c] # <<>> =>
        \A m \in getMetricsForCategory(c) :
            /\ m.minResponseTime = Kth(responseTimes[c], 1)
            /\ m.maxResponseTime = Kth(responseTimes[c], Len(responseTimes[c]))
            /\ m.minResponseTime <= m.p50ResponseTime
            /\ m.p50ResponseTime <= m.p90ResponseTime
            /\ m.p90ResponseTime <= m.p95ResponseTime
            /\ m.p95ResponseTime <= m.p99ResponseTime
            /\ m.p99ResponseTime <= m.maxResponseTime
            /\ Len(responseTimes[c]) = 1 =>
                  \A v \in {m.minResponseTime, m.maxResponseTime}
                            \cup {Reported(m, p) : p \in Percentiles} :
                      v = responseTimes[c][1]

\* C27 witness: 40, 10, 20 were recorded; the call reports min 10, p50 20,
\* p90 36, p95 38, p99 40 and max 40.
C27_Witness ==
    /\ responseTimes["profile"] = <<40, 10, 20>>
    /\ \E m \in getMetricsForCategory("profile") :
          /\ m.minResponseTime = 10 /\ m.p50ResponseTime = 20
          /\ m.p90ResponseTime = 36 /\ m.p95ResponseTime = 38
          /\ m.p99ResponseTime = 40 /\ m.maxResponseTime = 40

\* C28: when a fetch resolves and stores its credential while another
\* fetch is in flight, and that other fetch is rejected in the next step,
\* the rejection clears the credential just stored: accessToken,
\* refreshToken and expiresAt are all absent afterwards, whichever of the
\* two requests was posted first.
C28_LateFailureClearsFreshCredential ==
    [][(/\ last.op = "fetchToken" /\ last.result = "ok" /\ Held(last.ret)
        /\ last'.op = "fetchToken" /\ last'.result = "throw")
        => /\ accessToken = last.ret
           /\ InFlight >= 1
           /\ InFlight' = InFlight - 1
           /\ AllAbsent(accessToken', refreshToken', tokenExpiry')]_vars

\* C28 witness: a fetch had just resolved and stored tokA when another one
\* was rejected; the credential is cleared.
C28_Witness ==
    /\ last.op = "fetchToken" /\ last.result = "throw"
    /\ last.afterResolved
    /\ last.pre = "tokA"
    /\ AllAbsent(accessToken, refreshToken, tokenExpiry)

\* C29: getAccessToken() called while a token is held whose expiresAt has
\* been reached does not fail: it returns that token and starts a
\* background refresh.
C29_ExpiredTokenStillReturned ==
    [][(last'.op = "getAccessToken" /\ Held(accessToken) /\ ExpiryReached)
        => /\ last'.result = "ok"
           /\ last'.ret = accessToken
           /\ last'.fetch = "refresh_token"
           /\ last'.origin = "background"]_vars

\* a token is held and no expiresAt has been reached
ValidTokenHeld == Held(accessToken) /\ ~ExpiryReached

\* C30: with client credentials configured and a token endpoint that, from
\* some instant on, answers every request with an access_token and a
\* positive expires_in: an authenticate() call made from then on never
\* throws, and returns at once only when a valid token is held; and every
\* authenticate() call waiting for its fetch, whatever failed before,
\* eventually completes successfully, leaving a valid token held.
C30_AuthenticateRecovers ==
    /\ [][(Healthy /\ last'.op = "authenticate")
            => /\ last'.result \in {"ok", "pending"}
               /\ last'.result = "ok" => ValidTokenHeld'
               /\ last'.result = "pending" => last'.sent = 1]_vars
    /\ (Healthy /\ At("awaitFetch") # {})
          ~> (/\ last.op = "fetchToken" /\ last.origin = "foreground"
              /\ last.result = "ok"
              /\ Held(accessToken) /\ ExpiryAbsentOrAhead)

\* C30 witness: a failed fetch had cleared the credential while a background
\* refresh was in flight; authenticate() fetched with client_credentials,
\* the fetch has resolved with the endpoint healthy and a valid token is held.
C30_Witness ==
    /\ Healthy
    /\ last.op = "fetchToken" /\ last.origin = "foreground" /\ last.result = "ok"
    /\ last.fetch = "client_credentials"
    /\ last.pre = NULL
    /\ BagCardinality(pending) = 1
    /\ ValidTokenHeld

====
